---------------------------- MODULE Spec2Model ----------------------------
(***************************************************************************)
(* Model of the ray-tracing renderer of raytracer/src/renderer.rs:         *)
(* render, launch_ray, search_object_collision, illumination_from_lights   *)
(* and ray_encounter_obstacle.                                             *)
(*                                                                         *)
(* The shapes, textures, lights, camera and canvas are trait objects whose *)
(* code is outside the renderer.  What they answer is drawn from small     *)
(* sets when the renderer asks:                                            *)
(*   - a ray is represented by what every object of the scene answers to   *)
(*     check_collision on it: None, or a point, represented by its         *)
(*     distance from the ray source;                                       *)
(*   - distances are finite f64 values below f64::MAX, counted in units    *)
(*     of the renderer's threshold 1e-12 (Eps);                            *)
(*   - a Color is one channel (the three channels are computed alike),     *)
(*     dot products and coefficients are integers.                         *)
(* Option values are sequences: None is <<>>, Some(v) is <<v>>.            *)
(***************************************************************************)
EXTENDS Integers, Sequences, FiniteSets, TLC

VARIABLES
    scene,      \* the immutable Scene and RenderOptions of this render call
    pc,         \* position of render: start, loop, launch, draw, done
    stack,      \* the frames of launch_ray, innermost last
    pixel,      \* render's loop variables x, y and color
    ret,        \* what the last return of launch_ray returned
    yielded,    \* what camera.generate_rays has yielded so far
    colors,     \* what launch_ray returned to render, pixel after pixel
    drawCalls,  \* every call of canvas.draw, with what it returned
    result,     \* what render returned: running, ok or an error
    ops,        \* how often launch_ray and the trait methods were called
    unit        \* the function under test of the single-function specifications

vars == <<scene, pc, stack, pixel, ret, yielded, colors, drawCalls, result, ops,
          unit>>

-----------------------------------------------------------------------------
(* Bounds of the model *)

\* the scenes render is run on
MaxObjects == 2
MaxLights == 2
MaxDist == 2
MaxDepth == 2
MaxPixels == 2
\* the inputs of the functions that are run alone
MaxUnitObjects == 3
MaxUnitDist == 4
\* u32 and, on wasm32, usize have WordBits bits: 32 in the program, scaled down
\* here so that the canvases of the model reach the overflow
WordBits == 6
\* the elements a render iterator yields at most
MaxItems == 2
\* the largest canvas_width of a JsConfig
MaxWidth == 4

(* Program constants *)

\* renderer.rs:133 and :207, the threshold 1e-12, the unit of distance
Eps == 1
\* renderer.rs:60, the cast "as i8" keeps the low 8 bits
I8Bits == 8

None == <<>>
Some(v) == <<v>>

BLACK == 0
Colors == {1, 2}
Angles == {-1, 0, 2}
Alphas == {2}
Phongs == {[size |-> 2, lum_coeff |-> 3]}
\* the colors and dot products of the scenes that render is run on
SceneColors == {1}
SceneAngles == {1}

Distances == 0..MaxDist
\* what check_collision answers
HitVals == {None} \cup {Some(d) : d \in Distances}
\* the answers of n objects on one ray
Profiles(n) == [1..n -> HitVals]

UnitDistances == 0..MaxUnitDist
UnitHitVals == {None} \cup {Some(d) : d \in UnitDistances}
UnitProfiles == UNION {[1..n -> UnitHitVals] : n \in 0..MaxUnitObjects}

\* f64::MAX is above every distance
F64_MAX == MaxDist + MaxUnitDist + 1

Effects == [phong : {None} \cup {Some(p) : p \in Phongs},
            transparency : {None} \cup {Some(a) : a \in Alphas}]

\* u8 values of scene.options.maximum_light_recursion
RecursionValues == (0..MaxDepth) \cup {2 ^ (I8Bits - 1), 2 ^ I8Bits - 1}

SceneSet(rays, objects, recursions, sides) ==
    [rays : rays,
     lights : 0..MaxLights,
     objects : UNION {[1..n -> Effects] : n \in objects},
     ambient_light : {None} \cup {Some(c) : c \in SceneColors},
     world_color : SceneColors,
     maximum_light_recursion : recursions,
     canvas_width : sides,
     canvas_height : sides]

\* scenes of several pixels, and scenes of one pixel and a deeper recursion
FrameScenes == SceneSet(0..MaxPixels, 0..1, {0, 2 ^ (I8Bits - 1)}, {2})
DeepScenes == SceneSet({1}, 0..MaxObjects, RecursionValues, {1})
Scenes == FrameScenes \cup DeepScenes

\* "x as i8": the low 8 bits, read as two's complement
AsI8(v) ==
    LET m == v % (2 ^ I8Bits)
    IN  IF m >= 2 ^ (I8Bits - 1) THEN m - 2 ^ I8Bits ELSE m

RECURSIVE Pow(_, _)
Pow(b, e) == IF e = 0 THEN 1 ELSE b * Pow(b, e - 1)

-----------------------------------------------------------------------------
(* search_object_collision *)

SearchInit == [shortest_distance |-> F64_MAX, nearest_object_opt |-> None,
               collision_point |-> 0]

\* mutant of SearchStep: "<=" for "<", the last of the nearest objects wins
SearchStepLastWins(loc, i, candidate) ==
    IF candidate = None THEN loc
    ELSE LET distance == candidate[1]
         IN  IF distance <= Eps THEN loc
             ELSE IF distance <= loc.shortest_distance
                  THEN [shortest_distance |-> distance,
                        nearest_object_opt |-> Some(i),
                        collision_point |-> distance]
                  ELSE loc

\* one iteration of the loop over the objects
SearchStep(loc, i, candidate) ==
    IF candidate = None THEN loc
    ELSE LET distance == candidate[1]
         IN  IF distance <= Eps THEN loc
             ELSE IF distance < loc.shortest_distance
                  THEN [shortest_distance |-> distance,
                        nearest_object_opt |-> Some(i),
                        collision_point |-> distance]
                  ELSE loc

RECURSIVE SearchLoop(_, _, _)
SearchLoop(hits, i, loc) ==
    IF i > Len(hits) THEN loc
    ELSE SearchLoop(hits, i + 1, SearchStep(loc, i, hits[i]))

SearchResult(loc) ==
    IF loc.nearest_object_opt = None THEN None
    ELSE Some([object |-> loc.nearest_object_opt[1], point |-> loc.collision_point])

SearchObjectCollision(hits) == SearchResult(SearchLoop(hits, 1, SearchInit))

-----------------------------------------------------------------------------
(* ray_encounter_obstacle *)

\* mutant of ObstacleStep: ">=" for ">", an object at the light's distance
\* does not hide it
ObstacleStepStrict(light_distance, candidate) ==
    IF candidate = None THEN "next"
    ELSE LET object_distance == candidate[1]
         IN  IF object_distance >= light_distance THEN "next"
             ELSE IF object_distance <= Eps THEN "next"
             ELSE "hit"

\* the body of the loop for one object: "hit" returns true, "next" continues
ObstacleStep(light_distance, candidate) ==
    IF candidate = None THEN "next"
    ELSE LET object_distance == candidate[1]
         IN  IF object_distance > light_distance THEN "next"
             ELSE IF object_distance <= Eps THEN "next"
             ELSE "hit"

RECURSIVE ObstacleLoop(_, _, _)
ObstacleLoop(light_distance, obst, i) ==
    IF i > Len(obst) THEN FALSE
    ELSE IF ObstacleStep(light_distance, obst[i]) = "hit" THEN TRUE
    ELSE ObstacleLoop(light_distance, obst, i + 1)

RayEncounterObstacle(light_distance, obst) == ObstacleLoop(light_distance, obst, 1)

-----------------------------------------------------------------------------
(* illumination_from_lights, the two terms a light adds *)

\* mutant of Diffuse: the term is added whatever the sign of the dot product
DiffuseUnguarded(reflection_angle, light_color, object_color) ==
    reflection_angle * (light_color * object_color)

\* "Diffuse reflection"
Diffuse(reflection_angle, light_color, object_color) ==
    IF reflection_angle > 0
    THEN reflection_angle * (light_color * object_color)
    ELSE BLACK

\* "Add specular / phong light"
Specular(phong, specular_angle, light_color) ==
    IF phong # None /\ specular_angle > 0
    THEN light_color * Pow(specular_angle, phong[1].size) * phong[1].lum_coeff
    ELSE BLACK

-----------------------------------------------------------------------------
(* render and launch_ray as a machine: one frame per call of launch_ray *)

NoLightError == "There is no light in the scene"
NoNormalError == "No normal found"
DrawError == "canvas error"

\* mutant of Terminal: the recursion ends one level too late
TerminalOffByOne(depth) == depth < -1

\* "if depth < 0"
Terminal(depth) == depth < 0

\* mutant of RecursionDepth: the recursive call keeps the depth
SameDepth(depth) == depth

\* the depth launch_ray passes to its recursive call
RecursionDepth(depth) == depth - 1

NewFrame(ray, depth) ==
    [depth |-> depth, ray |-> ray, pc |-> "enter", object |-> 0, point |-> 0,
     normal |-> FALSE, color |-> BLACK, total |-> BLACK, light |-> 0, calls |-> 0]

\* whether some object answers check_collision on the ray with a point
Intersects(hits) == \E i \in DOMAIN hits : hits[i] # None

Top == stack[Len(stack)]
SetTop(f) == [stack EXCEPT ![Len(stack)] = f]
NumObjects == Len(scene.objects)
InLaunchRay(at) == pc = "launch" /\ stack # <<>> /\ Top.pc = at

NoPixel == [x |-> 0, y |-> 0, color |-> BLACK, no_normal |-> FALSE]
NoOps == [launch |-> 0, search |-> 0, shadow |-> 0, normal |-> 0]

Init ==
    /\ scene \in Scenes
    /\ pc = "start"
    /\ stack = <<>>
    /\ pixel = NoPixel
    /\ ret = None
    /\ yielded = <<>>
    /\ colors = <<>>
    /\ drawCalls = <<>>
    /\ result = "running"
    /\ ops = NoOps
    /\ unit = [fn |-> "render"]

\* mutant of Render: the lights are not checked
RenderUnchecked ==
    /\ pc = "start"
    /\ pc' = "loop"
    /\ UNCHANGED <<scene, stack, pixel, ret, yielded, colors, drawCalls, result,
                   ops, unit>>

\* render, up to the loop over the pixels
Render ==
    /\ pc = "start"
    /\ IF scene.lights = 0
       THEN /\ result' = NoLightError
            /\ pc' = "done"
       ELSE /\ pc' = "loop"
            /\ UNCHANGED result
    /\ UNCHANGED <<scene, stack, pixel, ret, yielded, colors, drawCalls, ops, unit>>

\* the camera's iterator yields (x, y, camera_ray); render calls launch_ray
GenerateRaysNext ==
    /\ pc = "loop"
    /\ Len(yielded) < scene.rays
    /\ \E x \in 0..(scene.canvas_width - 1), y \in 0..(scene.canvas_height - 1),
          hits \in Profiles(NumObjects) :
          /\ yielded' = Append(yielded, [x |-> x, y |-> y,
                                         intersects |-> Intersects(hits)])
          /\ pixel' = [NoPixel EXCEPT !.x = x, !.y = y]
          /\ stack' = <<NewFrame([source |-> 0, hits |-> hits],
                                 AsI8(scene.maximum_light_recursion))>>
    /\ pc' = "launch"
    /\ UNCHANGED <<scene, ret, colors, drawCalls, result, ops, unit>>

\* the camera's iterator is exhausted: render returns Ok(())
GenerateRaysEnd ==
    /\ pc = "loop"
    /\ Len(yielded) >= scene.rays
    /\ result' = "ok"
    /\ pc' = "done"
    /\ UNCHANGED <<scene, stack, pixel, ret, yielded, colors, drawCalls, ops, unit>>

\* launch_ray returns Ok(v): to its caller's "total_color += alpha * ...",
\* or to render's "let color ="
Return(v) ==
    /\ ret' = Some(v)
    /\ IF Len(stack) = 1
       THEN /\ stack' = <<>>
            /\ pixel' = [pixel EXCEPT !.color = v]
            /\ colors' = Append(colors, v)
            /\ pc' = "draw"
       ELSE LET caller == stack[Len(stack) - 1]
                alpha == scene.objects[caller.object].transparency[1]
            IN  /\ stack' = Append(SubSeq(stack, 1, Len(stack) - 2),
                                   [caller EXCEPT !.total = @ + alpha * v,
                                                  !.pc = "ambient"])
                /\ UNCHANGED <<pixel, colors, pc>>

\* an Err goes through every "?" up to render, which returns it
Fail(err) ==
    /\ stack' = <<>>
    /\ result' = err
    /\ pc' = "done"

\* the frame after the loop body for its current light
AfterLight(f) ==
    IF f.light >= scene.lights
    THEN [f EXCEPT !.pc = "refract"]
    ELSE [f EXCEPT !.light = @ + 1, !.pc = "lights"]

\* launch_ray from its entry to the call of illumination_from_lights
LaunchRay ==
    /\ InLaunchRay("enter")
    /\ IF Terminal(Top.depth)
       THEN /\ Return(BLACK)
            /\ ops' = [ops EXCEPT !.launch = @ + 1]
       ELSE LET found == SearchObjectCollision(Top.ray.hits)
            IN  /\ ops' = [ops EXCEPT !.launch = @ + 1, !.search = @ + 1]
                /\ IF found = None
                   THEN Return(scene.world_color)
                   ELSE \E normal \in BOOLEAN, color \in SceneColors :
                          /\ stack' = SetTop(AfterLight(
                                 [Top EXCEPT !.object = found[1].object,
                                             !.point = Top.ray.source + found[1].point,
                                             !.normal = normal,
                                             !.color = color]))
                          /\ pixel' = IF Len(stack) = 1
                                      THEN [pixel EXCEPT !.no_normal = ~normal]
                                      ELSE pixel
                          /\ UNCHANGED <<ret, colors, pc>>
    /\ UNCHANGED <<scene, yielded, drawCalls, result, unit>>

\* illumination_from_lights, one light: the shadow test
ShadowTest ==
    /\ InLaunchRay("lights")
    /\ \E light_distance \in Distances, obst \in Profiles(NumObjects) :
          stack' = SetTop(IF RayEncounterObstacle(light_distance, obst)
                          THEN AfterLight(Top)
                          ELSE [Top EXCEPT !.pc = "shade"])
    /\ ops' = [ops EXCEPT !.shadow = @ + 1]
    /\ UNCHANGED <<scene, pc, pixel, ret, yielded, colors, drawCalls, result, unit>>

\* mutant of Shade: a light is skipped when the normal is missing
ShadeSkipsMissingNormal ==
    /\ InLaunchRay("shade")
    /\ ops' = [ops EXCEPT !.normal = @ + 1]
    /\ stack' = SetTop(AfterLight(Top))
    /\ UNCHANGED <<scene, pc, pixel, ret, yielded, colors, drawCalls, result, unit>>

\* illumination_from_lights, one light that is not hidden: the normal, the
\* diffuse and the specular terms
Shade ==
    /\ InLaunchRay("shade")
    /\ ops' = [ops EXCEPT !.normal = @ + 1]
    /\ IF ~Top.normal
       THEN Fail(NoNormalError)
       ELSE /\ \E light_color \in SceneColors, reflection_angle \in SceneAngles,
                  specular_angle \in SceneAngles :
                  stack' = SetTop(AfterLight(
                      [Top EXCEPT !.total = @
                          + Diffuse(reflection_angle, light_color, Top.color)
                          + Specular(scene.objects[Top.object].phong,
                                     specular_angle, light_color)]))
            /\ UNCHANGED <<pc, result>>
    /\ UNCHANGED <<scene, pixel, ret, yielded, colors, drawCalls, unit>>

\* the frame of a call of launch_ray that waits for its recursive call: what
\* it reads after the call is nearest_object, collision_point and total_color
Awaiting(f) ==
    [NewFrame([source |-> 0, hits |-> <<>>], f.depth)
        EXCEPT !.pc = "await", !.object = f.object, !.point = f.point,
               !.color = f.color, !.total = f.total, !.calls = f.calls + 1]

\* mutant of Refraction: the second search is made with refraction_ray, the
\* ray that continues from the entry hit
RefractionFromEntry ==
    /\ InLaunchRay("refract")
    /\ IF scene.objects[Top.object].transparency = None
       THEN /\ stack' = SetTop([Top EXCEPT !.pc = "ambient"])
            /\ UNCHANGED ops
       ELSE /\ ops' = [ops EXCEPT !.search = @ + 1]
            /\ \E beyond \in Profiles(NumObjects) :
                 LET exit == SearchObjectCollision(beyond)
                 IN  IF exit = None
                     THEN stack' = SetTop([Top EXCEPT !.pc = "ambient"])
                     ELSE \E hits \in Profiles(NumObjects) :
                            stack' = Append(
                                SetTop(Awaiting(Top)),
                                NewFrame([source |-> Top.point + exit[1].point,
                                          hits |-> hits],
                                         RecursionDepth(Top.depth)))
    /\ UNCHANGED <<scene, pc, pixel, ret, yielded, colors, drawCalls, result, unit>>

\* launch_ray, "Refraction light": the second search with camera_ray and
\* the recursive call
Refraction ==
    /\ InLaunchRay("refract")
    /\ IF scene.objects[Top.object].transparency = None
       THEN /\ stack' = SetTop([Top EXCEPT !.pc = "ambient"])
            /\ UNCHANGED ops
       ELSE LET exit == SearchObjectCollision(Top.ray.hits)
            IN  /\ ops' = [ops EXCEPT !.search = @ + 1]
                /\ IF exit = None
                   THEN stack' = SetTop([Top EXCEPT !.pc = "ambient"])
                   ELSE \E hits \in Profiles(NumObjects) :
                          stack' = Append(
                              SetTop(Awaiting(Top)),
                              NewFrame([source |-> Top.ray.source + exit[1].point,
                                        hits |-> hits],
                                       RecursionDepth(Top.depth)))
    /\ UNCHANGED <<scene, pc, pixel, ret, yielded, colors, drawCalls, result, unit>>

\* launch_ray, "Ambient light", and its return
AmbientLight ==
    /\ InLaunchRay("ambient")
    /\ Return(IF scene.ambient_light # None
              THEN Top.total + scene.ambient_light[1] * Top.color
              ELSE Top.total)
    /\ UNCHANGED <<scene, yielded, drawCalls, result, ops, unit>>

\* mutant of Draw: the row is y instead of canvas_height - y
DrawUnflipped ==
    /\ pc = "draw"
    /\ \E drawn \in BOOLEAN :
          /\ drawCalls' = Append(drawCalls,
                 [x |-> pixel.x, y |-> pixel.y, color |-> pixel.color, ok |-> drawn])
          /\ IF drawn
             THEN pc' = "loop" /\ UNCHANGED result
             ELSE pc' = "done" /\ result' = DrawError
    /\ UNCHANGED <<scene, stack, pixel, ret, yielded, colors, ops, unit>>

\* mutant of Draw: the loop goes on after a refused draw
DrawIgnoresError ==
    /\ pc = "draw"
    /\ \E drawn \in BOOLEAN :
          drawCalls' = Append(drawCalls,
                 [x |-> pixel.x, y |-> scene.canvas_height - pixel.y,
                  color |-> pixel.color, ok |-> drawn])
    /\ pc' = "loop"
    /\ UNCHANGED <<scene, stack, pixel, ret, yielded, colors, result, ops, unit>>

\* canvas.draw(x, canvas_height - y, color), which the canvas may refuse
Draw ==
    /\ pc = "draw"
    /\ \E drawn \in BOOLEAN :
          /\ drawCalls' = Append(drawCalls,
                 [x |-> pixel.x, y |-> scene.canvas_height - pixel.y,
                  color |-> pixel.color, ok |-> drawn])
          /\ IF drawn
             THEN pc' = "loop" /\ UNCHANGED result
             ELSE pc' = "done" /\ result' = DrawError
    /\ UNCHANGED <<scene, stack, pixel, ret, yielded, colors, ops, unit>>

Next ==
    \/ Render
    \/ GenerateRaysNext
    \/ GenerateRaysEnd
    \/ LaunchRay
    \/ ShadowTest
    \/ Shade
    \/ Refraction
    \/ AmbientLight
    \/ Draw

Spec == Init /\ [][Next]_vars

-----------------------------------------------------------------------------
(* The frame driver: render *)

\* the i-th call of canvas.draw is the i-th element the camera yielded
DrawnAsYielded(i) ==
    /\ drawCalls[i].x = yielded[i].x
    /\ drawCalls[i].y = scene.canvas_height - yielded[i].y
    /\ drawCalls[i].color = colors[i]

\* render has returned and does nothing more
Returned == pc = "done" /\ stack = <<>> /\ ~ENABLED Next

(* C1: render on a scene without lights returns the error "There is no     *)
(* light in the scene" before the camera is asked for a ray: nothing was   *)
(* yielded, launch_ray and the trait methods were never called, and        *)
(* canvas.draw was never called.                                           *)
C1_NoLightFailsFirst ==
    /\ (scene.lights = 0 /\ pc # "start") => result = NoLightError
    /\ result = NoLightError =>
          /\ scene.lights = 0
          /\ Returned
          /\ yielded = <<>> /\ colors = <<>> /\ drawCalls = <<>>
          /\ ops = NoOps

C1_Witness ==
    /\ result = NoLightError
    /\ NumObjects > 0
    /\ scene.rays > 0

(* C2: the calls of canvas.draw follow the camera's sequence: the i-th     *)
(* call is draw(x, canvas_height - y, color) for the i-th yielded          *)
(* (x, y, ray) and the color launch_ray returned for it; when render       *)
(* returns Ok there is exactly one successful call per yielded element,    *)
(* and two elements of different pixels are drawn at different places.     *)
C2_DrawFollowsCamera ==
    /\ Len(drawCalls) <= Len(colors) /\ Len(colors) <= Len(yielded)
    /\ \A i \in 1..Len(drawCalls) : DrawnAsYielded(i)
    /\ result = "ok" =>
          /\ Len(drawCalls) = Len(yielded)
          /\ \A i \in 1..Len(drawCalls) : drawCalls[i].ok
    /\ \A i, j \in 1..Len(drawCalls) :
          <<yielded[i].x, yielded[i].y>> # <<yielded[j].x, yielded[j].y>>
             => <<drawCalls[i].x, drawCalls[i].y>> # <<drawCalls[j].x, drawCalls[j].y>>

C2_Witness ==
    /\ result = "ok"
    /\ Len(drawCalls) = 2
    /\ yielded[1].y # yielded[2].y
    /\ yielded[1].x # yielded[2].x
    /\ drawCalls[1].color # drawCalls[2].color

(* C3: when canvas.draw returns an error for the k-th yielded element,     *)
(* render returns that error at once: draw was called once for each of     *)
(* the elements 1..k, in order, the calls before the k-th succeeded,       *)
(* launch_ray was called for k elements and nothing happens afterwards.    *)
C3_DrawErrorAborts ==
    /\ \A i \in 1..Len(drawCalls) :
          ~drawCalls[i].ok => (i = Len(drawCalls) /\ result = DrawError)
    /\ result = DrawError =>
          /\ Returned
          /\ Len(drawCalls) = Len(yielded) /\ Len(colors) = Len(yielded)
          /\ ~drawCalls[Len(drawCalls)].ok
          /\ \A i \in 1..Len(drawCalls) : DrawnAsYielded(i)

C3_Witness ==
    /\ result = DrawError
    /\ Len(drawCalls) = 1
    /\ scene.rays > 1
    /\ NumObjects > 0

-----------------------------------------------------------------------------
(* Errors and the end of the recursion: launch_ray *)

\* every call of canvas.draw so far succeeded
AllDrawn == \A i \in 1..Len(drawCalls) : drawCalls[i].ok

(* C4 as stated: whenever the nearest object hit by a pixel's ray has no   *)
(* normal at the hit point, launch_ray returns an error, render returns    *)
(* it and the pixel is not drawn.                                          *)
C4_AnyMissingNormalIsFatal ==
    (pixel.no_normal /\ pc \in {"draw", "loop", "done"}) => result = NoNormalError

(* C4, amended: a missing normal is fatal when normal_at is called, which  *)
(* illumination_from_lights does for a light that is not hidden.  When     *)
(* the hit object (of a pixel's ray or of a ray of the recursion) has no   *)
(* normal at the hit point and a light passes the shadow test there,       *)
(* render returns "No normal found": the current pixel and the later       *)
(* ones are not drawn, the earlier ones were.                              *)
C4_MissingNormalIsFatal ==
    /\ [](result = NoNormalError =>
            /\ Returned
            /\ ops.normal >= 1
            /\ Len(drawCalls) = Len(yielded) - 1 /\ Len(colors) = Len(drawCalls)
            /\ AllDrawn)
    /\ [][(InLaunchRay("shade") /\ ~Top.normal) =>
            (result' = NoNormalError /\ UNCHANGED <<drawCalls, yielded, colors>>)]_vars

C4_Witness ==
    /\ result = NoNormalError
    /\ Len(yielded) = 2
    /\ Len(drawCalls) = 1
    /\ ops.shadow > 1

(* C5: launch_ray called with a depth below 0 returns black and nothing    *)
(* else: no intersection search, no shadow test, no normal lookup, no      *)
(* error, whatever the scene holds.                                        *)
C5_NegativeDepthIsBlack ==
    [][(InLaunchRay("enter") /\ Top.depth < 0) =>
          /\ ret' = Some(BLACK)
          /\ Len(stack') = Len(stack) - 1
          /\ ops'.search = ops.search
          /\ ops'.shadow = ops.shadow
          /\ ops'.normal = ops.normal
          /\ result' = result]_vars

\* launch_ray(depth = -1) has returned black to a caller that hit an object,
\* in a scene with two objects, an ambient light and a world color
C5_Witness ==
    /\ InLaunchRay("ambient")
    /\ Top.depth = 0 /\ Top.calls = 1
    /\ ret = Some(BLACK)
    /\ NumObjects = 2
    /\ scene.ambient_light # None /\ scene.world_color # BLACK

(* C6 as stated: for a camera ray that intersects no object, the color     *)
(* render passes to canvas.draw is the world color, for every configured   *)
(* maximum_light_recursion.                                                *)
C6_MissIsWorldColor ==
    \A i \in 1..Len(drawCalls) :
        ~yielded[i].intersects => drawCalls[i].color = scene.world_color

\* the steps a call of launch_ray at this depth takes at most
RECURSIVE Cost(_)
Cost(depth) ==
    IF depth < 0 THEN 1 ELSE 2 * scene.lights + 3 + Cost(depth - 1)

\* the steps a frame of launch_ray still takes at most, its callee's included
FrameLeft(f) ==
    CASE f.pc = "enter" -> Cost(f.depth)
      [] f.pc = "lights" -> 2 * (scene.lights - f.light + 1) + 2 + Cost(f.depth - 1)
      [] f.pc = "shade" -> 2 * (scene.lights - f.light) + 3 + Cost(f.depth - 1)
      [] f.pc = "refract" -> 2 + Cost(f.depth - 1)
      [] f.pc = "await" -> 1
      [] f.pc = "ambient" -> 1

RECURSIVE StepsLeftFrom(_)
StepsLeftFrom(i) ==
    IF i > Len(stack) THEN 0 ELSE FrameLeft(stack[i]) + StepsLeftFrom(i + 1)

StepsLeft == StepsLeftFrom(1)

I8Range == (-(2 ^ (I8Bits - 1)))..(2 ^ (I8Bits - 1) - 1)

\* the depths of the calls of launch_ray that are running
DepthsDecrease ==
    /\ \A i \in 1..Len(stack) :
          /\ stack[i].depth \in I8Range
          /\ stack[i].calls <= 1
          /\ stack[i].depth < 0 => stack[i].calls = 0
          /\ i > 1 => /\ stack[i].depth = stack[i - 1].depth - 1
                      /\ stack[i].depth >= -1
                      /\ stack[i - 1].calls = 1
    /\ stack # <<>> =>
          Len(stack) - 1 <= (IF stack[1].depth >= 0 THEN stack[1].depth + 1 ELSE 0)

(* C7: launch_ray terminates.  A call makes at most one recursive call,    *)
(* with its own depth minus one; no call below depth -1 is made, so a      *)
(* call at depth d >= 0 has at most d + 1 calls nested in it and every     *)
(* depth stays in the range of i8; every step of launch_ray lowers the     *)
(* number of steps that are left at most.                                  *)
C7_LaunchRayTerminates ==
    /\ []DepthsDecrease
    /\ [][pc = "launch" => (StepsLeft' < StepsLeft /\ StepsLeft' >= 0)]_vars

C7_Witness ==
    /\ Len(stack) = 4
    /\ stack[1].depth = 2
    /\ Top.depth = -1

\* the object that the call of launch_ray in frame f has hit
HitObject(f) == scene.objects[f.object]

\* A: ambient_light * color_at(collision_point), when the scene has one
AmbientTerm(f) ==
    IF scene.ambient_light # None THEN scene.ambient_light[1] * f.color ELSE BLACK

\* a call of launch_ray that has finished its refraction part has made its
\* one recursive call if and only if the object it hit is transparent
RecursionIffTransparent ==
    \A i \in 1..Len(stack) :
        stack[i].pc = "ambient" =>
            stack[i].calls = (IF HitObject(stack[i]).transparency # None THEN 1 ELSE 0)

\* "Refraction light" of a call that hit an object: without Transparency
\* nothing is added and no call is made; with it, launch_ray is called with
\* depth - 1 on a ray that starts at the point of the first hit
RefractionStep ==
    InLaunchRay("refract") =>
        IF HitObject(Top).transparency = None
        THEN stack' = SetTop([Top EXCEPT !.pc = "ambient"])
        ELSE /\ Len(stack') = Len(stack) + 1
             /\ stack'[Len(stack')].depth = Top.depth - 1
             /\ stack'[Len(stack')].ray.source = Top.point
             /\ stack'[Len(stack')].pc = "enter"
             /\ stack'[Len(stack)].pc = "await"
             /\ stack'[Len(stack)].total = Top.total
             /\ stack'[Len(stack)].object = Top.object
             /\ stack'[Len(stack)].color = Top.color

\* a call of launch_ray returns Ok(v) to the call that made it: the caller's
\* total_color grows by alpha * v and the caller goes on to the ambient light
ReturnToCaller ==
    (pc = "launch" /\ Len(stack) > 1 /\ Len(stack') = Len(stack) - 1) =>
        LET caller == stack[Len(stack) - 1]
        IN  /\ caller.pc = "await"
            /\ ret' # None
            /\ stack'[Len(stack')] =
                   [caller EXCEPT !.pc = "ambient",
                                  !.total = @ + HitObject(caller).transparency[1] * ret'[1]]

\* the return of a call that hit an object: total_color + A, unclamped
AmbientStep ==
    InLaunchRay("ambient") =>
        /\ Top.depth >= 0
        /\ ret' = Some(Top.total + AmbientTerm(Top))
        /\ Len(stack) = 1 => (pc' = "draw" /\ pixel'.color = ret'[1])

\* the lights add to total_color the terms of illumination_from_lights and
\* nothing else does before the refraction
DirectStep ==
    /\ InLaunchRay("lights") => stack'[Len(stack)].total = Top.total
    /\ (InLaunchRay("enter") /\ Len(stack') = Len(stack)) =>
           stack'[Len(stack)].total = BLACK
    /\ (InLaunchRay("shade") /\ stack' # <<>>) =>
           \E light_color \in SceneColors, reflection_angle \in SceneAngles,
              specular_angle \in SceneAngles :
              stack'[Len(stack)].total = Top.total
                  + Diffuse(reflection_angle, light_color, Top.color)
                  + Specular(HitObject(Top).phong, specular_angle, light_color)

-----------------------------------------------------------------------------
(* The functions of the renderer run alone, on inputs drawn from bounded   *)
(* sets, one loop iteration per step.                                      *)

NoScene == [rays |-> 0, lights |-> 0, objects |-> <<>>, ambient_light |-> None,
            world_color |-> BLACK, maximum_light_recursion |-> 0,
            canvas_width |-> 1, canvas_height |-> 1]

\* render is not running
RenderIdle ==
    /\ scene = NoScene
    /\ pc = "idle"
    /\ stack = <<>>
    /\ pixel = NoPixel
    /\ ret = None
    /\ yielded = <<>>
    /\ colors = <<>>
    /\ drawCalls = <<>>
    /\ result = "running"
    /\ ops = NoOps

renderVars == <<scene, pc, stack, pixel, ret, yielded, colors, drawCalls, result, ops>>

Running(fn) == unit.fn = fn /\ ~unit.returned

(* search_object_collision(ray, objects) *)

InitSearch ==
    /\ RenderIdle
    /\ \E hits \in UnitProfiles :
          unit = [fn |-> "search_object_collision", hits |-> hits, i |-> 1,
                  loc |-> SearchInit, returned |-> FALSE, out |-> None]

\* "for object_candidate in objects"
SearchIterate ==
    /\ Running("search_object_collision")
    /\ unit.i <= Len(unit.hits)
    /\ unit' = [unit EXCEPT !.loc = SearchStep(@, unit.i, unit.hits[unit.i]),
                            !.i = @ + 1]
    /\ UNCHANGED renderVars

\* "match nearest_object_opt"
SearchReturn ==
    /\ Running("search_object_collision")
    /\ unit.i > Len(unit.hits)
    /\ unit' = [unit EXCEPT !.returned = TRUE, !.out = SearchResult(unit.loc)]
    /\ UNCHANGED renderVars

NextSearch ==
    \/ SearchIterate
    \/ SearchReturn

SpecSearch == InitSearch /\ [][NextSearch]_vars

(* ray_encounter_obstacle(ray, destination, objects) *)

InitObstacle ==
    /\ RenderIdle
    /\ \E light_distance \in UnitDistances, obst \in UnitProfiles :
          unit = [fn |-> "ray_encounter_obstacle", light_distance |-> light_distance,
                  obst |-> obst, i |-> 1, returned |-> FALSE, out |-> FALSE]

\* "for candidate_object in objects"
ObstacleIterate ==
    /\ Running("ray_encounter_obstacle")
    /\ unit.i <= Len(unit.obst)
    /\ unit' = IF ObstacleStep(unit.light_distance, unit.obst[unit.i]) = "hit"
               THEN [unit EXCEPT !.returned = TRUE, !.out = TRUE]
               ELSE [unit EXCEPT !.i = @ + 1]
    /\ UNCHANGED renderVars

\* the final "false"
ObstacleReturn ==
    /\ Running("ray_encounter_obstacle")
    /\ unit.i > Len(unit.obst)
    /\ unit' = [unit EXCEPT !.returned = TRUE, !.out = FALSE]
    /\ UNCHANGED renderVars

NextObstacle ==
    \/ ObstacleIterate
    \/ ObstacleReturn

SpecObstacle == InitObstacle /\ [][NextObstacle]_vars

\* the objects whose answer on the ray is a point farther than 1e-12
Beyond(hits) == {i \in DOMAIN hits : hits[i] # None /\ hits[i][1] > Eps}

(* C8: search_object_collision returns None exactly when no object         *)
(* answers with a point at a distance above 1e-12; otherwise it returns    *)
(* an object and its point whose distance is the least of the distances    *)
(* above 1e-12, and of the objects at that distance the first of the       *)
(* list.  A point at a distance of 1e-12 or less is never returned.        *)
C8_NearestFirstHit ==
    (unit.fn = "search_object_collision" /\ unit.returned) =>
        LET hits == unit.hits
        IN  /\ unit.out = None <=> Beyond(hits) = {}
            /\ unit.out # None =>
                  LET found == unit.out[1]
                  IN  /\ found.object \in Beyond(hits)
                      /\ found.point = hits[found.object][1]
                      /\ \A j \in Beyond(hits) :
                            /\ found.point <= hits[j][1]
                            /\ hits[j][1] = found.point => found.object <= j

\* two objects at the least distance behind an object at 1e-12
C8_Witness ==
    /\ unit.fn = "search_object_collision" /\ unit.returned
    /\ Len(unit.hits) = 3
    /\ unit.hits[1] = Some(Eps)
    /\ unit.hits[2] = unit.hits[3]
    /\ unit.out # None
    /\ unit.out[1].object = 2

\* the objects that hide the light: strictly between 1e-12 and the light
StrictlyBetween(light_distance, obst) ==
    {i \in DOMAIN obst : obst[i] # None /\ obst[i][1] > Eps
                         /\ obst[i][1] < light_distance}

\* the objects that hide the light: above 1e-12, up to the light's distance
UpToLight(light_distance, obst) ==
    {i \in DOMAIN obst : obst[i] # None /\ obst[i][1] > Eps
                         /\ obst[i][1] <= light_distance}

\* the objects in another order
Reordered(obst, p) == [i \in DOMAIN obst |-> obst[p[i]]]

(* C9 as stated: ray_encounter_obstacle returns true exactly when an       *)
(* object answers with a point whose distance is strictly between 1e-12    *)
(* and the distance of the light.                                          *)
C9_HiddenStrictlyBetween ==
    (unit.fn = "ray_encounter_obstacle" /\ unit.returned) =>
        (unit.out <=> StrictlyBetween(unit.light_distance, unit.obst) # {})

(* C9, amended: ray_encounter_obstacle returns true exactly when an        *)
(* object answers with a point whose distance is above 1e-12 and at most   *)
(* the distance of the light: a point at the light's distance hides the    *)
(* light, a point at 1e-12 or less does not.  The order of the objects     *)
(* does not change the result.                                             *)
C9_HiddenUpToLight ==
    (unit.fn = "ray_encounter_obstacle" /\ unit.returned) =>
        /\ unit.out <=> UpToLight(unit.light_distance, unit.obst) # {}
        /\ \A p \in Permutations(DOMAIN unit.obst) :
              RayEncounterObstacle(unit.light_distance, Reordered(unit.obst, p))
                 = unit.out

\* the only object that is not too near is at the light's distance
C9_Witness ==
    /\ unit.fn = "ray_encounter_obstacle" /\ unit.returned
    /\ unit.out
    /\ Len(unit.obst) = 3
    /\ unit.obst[1] = Some(Eps)
    /\ unit.obst[2] = None
    /\ unit.obst[3] = Some(unit.light_distance)

-----------------------------------------------------------------------------
(* illumination_from_lights(object, surface_point, lights, objects,        *)
(* camera_ray), with one object in the scene.  The object is seen as:      *)
(* whether normal_at answers at the surface point, color_at there, and     *)
(* its Phong effect.                                                       *)

\* a light is seen from the surface point as: the distance to its source,
\* what the object answers on the light ray (nothing, a point at 1e-12, a
\* point at the light), light_color_at, and the two dot products
LightViews == [distance : {MaxDist},
               obst : {<<None>>, <<Some(Eps)>>, <<Some(MaxDist)>>},
               color : Colors,
               reflection_angle : Angles, specular_angle : Angles]

SurfaceViews == [normal : BOOLEAN, color : Colors,
                 phong : {None} \cup {Some(p) : p \in Phongs}]

\* Result<Color, String>
Ok(color) == [ok |-> TRUE, color |-> color, err |-> ""]
Err(err) == [ok |-> FALSE, color |-> BLACK, err |-> err]

InitIllumination ==
    /\ RenderIdle
    /\ \E object \in SurfaceViews,
          lights \in UNION {[1..n -> LightViews] : n \in 0..MaxLights} :
          unit = [fn |-> "illumination_from_lights", object |-> object,
                  lights |-> lights, i |-> 1, total_color |-> BLACK,
                  returned |-> FALSE, out |-> Err("")]

\* "for current_light in lights"
IlluminateLight ==
    /\ Running("illumination_from_lights")
    /\ unit.i <= Len(unit.lights)
    /\ LET current_light == unit.lights[unit.i]
       IN  unit' =
             IF RayEncounterObstacle(current_light.distance, current_light.obst)
             THEN [unit EXCEPT !.i = @ + 1]
             ELSE IF ~unit.object.normal
             THEN [unit EXCEPT !.returned = TRUE, !.out = Err(NoNormalError)]
             ELSE [unit EXCEPT
                     !.i = @ + 1,
                     !.total_color = @
                        + Diffuse(current_light.reflection_angle,
                                  current_light.color, unit.object.color)
                        + Specular(unit.object.phong,
                                   current_light.specular_angle,
                                   current_light.color)]
    /\ UNCHANGED renderVars

\* "Ok(total_color)"
IlluminationReturn ==
    /\ Running("illumination_from_lights")
    /\ unit.i > Len(unit.lights)
    /\ unit' = [unit EXCEPT !.returned = TRUE, !.out = Ok(unit.total_color)]
    /\ UNCHANGED renderVars

NextIllumination ==
    \/ IlluminateLight
    \/ IlluminationReturn

SpecIllumination == InitIllumination /\ [][NextIllumination]_vars

\* the lights that no object hides
Lit(lights) ==
    {i \in DOMAIN lights : UpToLight(lights[i].distance, lights[i].obst) = {}}

\* what one light adds: the diffuse term, and for a Phong object the
\* specular term, each when its dot product is above 0
LightTerm(object, light) ==
    (IF light.reflection_angle > 0
     THEN light.reflection_angle * light.color * object.color
     ELSE 0)
    + (IF object.phong # None /\ light.specular_angle > 0
       THEN light.color
            * Pow(light.specular_angle, object.phong[1].size)
            * object.phong[1].lum_coeff
       ELSE 0)

RECURSIVE SumOfTerms(_, _, _)
SumOfTerms(object, lights, among) ==
    IF among = {} THEN 0
    ELSE LET i == CHOOSE k \in among : TRUE
         IN  LightTerm(object, lights[i])
             + SumOfTerms(object, lights, among \ {i})

(* C10: illumination_from_lights returns the sum, over the lights for      *)
(* which the shadow test is false, of the diffuse term (added when its     *)
(* dot product is above 0) and, for an object with a Phong effect, the     *)
(* specular term (added when its dot product is above 0); a hidden light   *)
(* adds nothing, whatever the other lights are.  It returns the sum        *)
(* unless a light is not hidden and the object has no normal.              *)
C10_SumOfLitLights ==
    (unit.fn = "illumination_from_lights" /\ unit.returned) =>
        LET lit == Lit(unit.lights)
        IN  IF unit.object.normal \/ lit = {}
            THEN unit.out = Ok(SumOfTerms(unit.object, unit.lights, lit))
            ELSE unit.out = Err(NoNormalError)

\* a hidden light before a light that adds both terms on a Phong object
C10_Witness ==
    /\ unit.fn = "illumination_from_lights" /\ unit.returned
    /\ Len(unit.lights) = 2
    /\ Lit(unit.lights) = {2}
    /\ unit.lights[1].reflection_angle > 0
    /\ unit.lights[2].reflection_angle > 0
    /\ unit.lights[2].specular_angle > 0
    /\ unit.object.phong # None
    /\ unit.out = Ok(LightTerm(unit.object, unit.lights[2]))

-----------------------------------------------------------------------------
(* The streaming handle: Renderer::new and Renderer::next (wasm32)         *)

ParseError == "Error while parsing scene"
ConfigError == "invalid configuration"

Word == 2 ^ WordBits

\* a float "as u32" / "as u8": truncated, saturated at both ends
Saturate(v, max) == IF v < 0 THEN 0 ELSE IF v > max THEN max ELSE v

\* camera.size_ratio(), as num / den
SizeRatios == {[num |-> 1, den |-> 1], [num |-> 2, den |-> 1], [num |-> 1, den |-> 2]}

\* "(js_config.canvas_width as f64 / scene.camera.size_ratio()) as u32"
CanvasHeight(canvas_width, ratio) ==
    Saturate((canvas_width * ratio.den) \div ratio.num, Word - 1)

\* a color channel c is n / 2; "(c * 255.0) as u8"
ChannelByte(n) == Saturate(IF n < 0 THEN 0 ELSE (n * 255) \div 2, 255)
PixelColors == {[red |-> 2, green |-> 1, blue |-> -1],
                [red |-> 3, green |-> 3, blue |-> 1]}

\* "vec![0; n]"
Zeros(n) == [j \in 1..n |-> 0]

\* the inputs of Renderer::new: whether the scene description parses and
\* the configuration deserializes, the canvas width, the camera's ratio,
\* what render_scene answers and how many elements its iterator holds; and
\* whether the build checks the integer arithmetic for overflow
NewInputs ==
    [parses : BOOLEAN, deserializes : BOOLEAN, canvas_width : 1..MaxWidth,
     ratio : SizeRatios, render_scene : {"ok", NoLightError},
     elements : 0..MaxItems, overflow_checks : BOOLEAN]

NoHandle == [render_iterator |-> 0, img_buffer |-> <<>>, width |-> 0, height |-> 0]

InitRenderer ==
    /\ RenderIdle
    /\ \E input \in NewInputs :
          unit = [fn |-> "Renderer", state |-> "start", input |-> input,
                  handle |-> NoHandle, err |-> "", consumed |-> 0, calls |-> 0,
                  last |-> None, out |-> FALSE, returned |-> FALSE]

\* Renderer::new
RendererNew ==
    /\ unit.fn = "Renderer" /\ unit.state = "start"
    /\ LET input == unit.input
           width == input.canvas_width
           height == CanvasHeight(input.canvas_width, input.ratio)
           size == width * height * 4
       IN  unit' =
             IF ~input.parses
             THEN [unit EXCEPT !.state = "err", !.err = ParseError]
             ELSE IF ~input.deserializes
             THEN [unit EXCEPT !.state = "err", !.err = ConfigError]
             ELSE IF size >= Word /\ input.overflow_checks
             THEN [unit EXCEPT !.state = "aborted"]
             ELSE IF input.render_scene # "ok"
             THEN [unit EXCEPT !.state = "aborted"]
             ELSE [unit EXCEPT
                     !.state = "handle",
                     !.handle = [render_iterator |-> input.elements,
                                 img_buffer |-> Zeros(size % Word),
                                 width |-> width, height |-> height]]
    /\ UNCHANGED renderVars

\* what the render iterator yields: the pixels of the canvas, or an error
Items(handle) ==
    {[ok |-> TRUE, x |-> x, y |-> y, color |-> c] :
        x \in 0..(handle.width - 1), y \in 0..(handle.height - 1), c \in PixelColors}
    \cup {[ok |-> FALSE, x |-> 0, y |-> 0, color |-> c] : c \in {[red |-> 0, green |-> 0, blue |-> 0]}}

\* "4 * (pixel.x + pixel.y * self.width) as usize"
PixelIndex(px, width) == 4 * (px.x + px.y * width)

\* the four indexed stores of Renderer::next
WritePixel(img_buffer, index, color) ==
    [j \in 1..Len(img_buffer) |->
        CASE j = index + 1 -> ChannelByte(color.red)
          [] j = index + 2 -> ChannelByte(color.green)
          [] j = index + 3 -> ChannelByte(color.blue)
          [] j = index + 4 -> 255
          [] OTHER -> img_buffer[j]]

\* Renderer::next
RendererNext ==
    /\ unit.fn = "Renderer" /\ unit.state = "handle"
    /\ unit.calls <= MaxItems
    /\ IF unit.handle.render_iterator = 0
       THEN unit' = [unit EXCEPT !.calls = @ + 1, !.last = None, !.out = FALSE]
       ELSE \E item \in Items(unit.handle) :
              LET taken == [unit EXCEPT !.calls = @ + 1, !.consumed = @ + 1,
                                        !.last = Some(item),
                                        !.handle.render_iterator = @ - 1]
                  index == PixelIndex(item, unit.handle.width)
              IN  unit' =
                    IF ~item.ok
                    THEN [taken EXCEPT !.out = FALSE]
                    ELSE IF index >= Word /\ unit.input.overflow_checks
                    THEN [taken EXCEPT !.state = "aborted"]
                    ELSE IF (index % Word) + 4 > Len(unit.handle.img_buffer)
                    THEN [taken EXCEPT !.state = "aborted"]
                    ELSE [taken EXCEPT
                            !.out = TRUE,
                            !.handle.img_buffer =
                                WritePixel(@, index % Word, item.color)]
    /\ UNCHANGED renderVars

NextRenderer ==
    \/ RendererNew
    \/ RendererNext

SpecRenderer == InitRenderer /\ [][NextRenderer]_vars

\* a step that is one call of Renderer::next
NextCalled == unit.state = "handle" /\ unit'.calls = unit.calls + 1

\* the call of next has written the pixel, and only the pixel
PixelWritten(before, after, px) ==
    LET index == PixelIndex(px, before.width)
    IN  /\ after.width = before.width
        /\ after.height = before.height
        /\ Len(after.img_buffer) = Len(before.img_buffer)
        /\ index + 4 <= Len(before.img_buffer)
        /\ after.img_buffer[index + 1] = ChannelByte(px.color.red)
        /\ after.img_buffer[index + 2] = ChannelByte(px.color.green)
        /\ after.img_buffer[index + 3] = ChannelByte(px.color.blue)
        /\ after.img_buffer[index + 4] = 255
        /\ \A j \in 1..Len(before.img_buffer) :
              j \notin (index + 1)..(index + 4) =>
                  after.img_buffer[j] = before.img_buffer[j]

\* what C12 says of one call of next
NextAsClaimed ==
    IF unit'.last # None /\ unit'.last[1].ok
    THEN /\ unit'.consumed = unit.consumed + 1
         /\ unit'.handle.render_iterator = unit.handle.render_iterator - 1
         /\ unit'.state = "handle"
         /\ unit'.out = TRUE
         /\ PixelWritten(unit.handle, unit'.handle, unit'.last[1])
    ELSE /\ unit'.consumed = unit.consumed + (IF unit'.last = None THEN 0 ELSE 1)
         /\ unit'.state = "handle"
         /\ unit'.out = FALSE
         /\ unit'.handle.img_buffer = unit.handle.img_buffer

(* C12 as stated: each call of Renderer::next consumes one element of the  *)
(* render iterator; for a pixel it writes exactly the 4 bytes at index     *)
(* 4 * (x + y * width) .. + 3 of img_buffer, alpha 0xFF, leaves every      *)
(* other byte, width and height as they are and returns true; when the     *)
(* iterator is exhausted or yields an error it returns false and leaves    *)
(* img_buffer as it is.                                                    *)
C12_NextWritesPixel == [][NextCalled => NextAsClaimed]_vars

\* the buffer of the handle has width * height * 4 bytes
WholeBuffer(handle) == Len(handle.img_buffer) = handle.width * handle.height * 4

\* on a handle whose buffer has width * height * 4 bytes, next is as C12 says
NextOnWholeBuffer ==
    [][(NextCalled /\ WholeBuffer(unit.handle)) => NextAsClaimed]_vars

\* next has written a second pixel into a buffer of width * height * 4 bytes
NextOnWholeBufferWitness ==
    /\ unit.fn = "Renderer" /\ unit.state = "handle"
    /\ WholeBuffer(unit.handle) /\ unit.handle.width > 1 /\ unit.handle.height > 1
    /\ unit.consumed = 2 /\ unit.out
    /\ unit.last[1].x > 0 /\ unit.last[1].y > 0
    /\ Cardinality({j \in 1..Len(unit.handle.img_buffer) :
                       unit.handle.img_buffer[j] = 255}) > 2

(* C13 as stated: Renderer::new returns an Err value when the scene        *)
(* description does not parse or the configuration does not deserialize;   *)
(* a failure of render_scene is not an Err value, it aborts the call; on   *)
(* success the handle holds an all-zero buffer of width * height * 4       *)
(* bytes and no pixel has been consumed.                                   *)
C13_NewOutcome ==
    (unit.fn = "Renderer" /\ unit.state # "start") =>
        /\ unit.state = "err" <=> (~unit.input.parses \/ ~unit.input.deserializes)
        /\ (unit.input.parses /\ unit.input.deserializes
              /\ unit.input.render_scene # "ok") => unit.state = "aborted"
        /\ (unit.state = "handle" /\ unit.calls = 0) =>
              /\ unit.handle.width = unit.input.canvas_width
              /\ unit.handle.img_buffer =
                     Zeros(unit.handle.width * unit.handle.height * 4)
              /\ unit.consumed = 0
              /\ unit.handle.render_iterator = unit.input.elements

\* new but for the size of the buffer, which is width * height * 4 modulo
\* 2 ^ WordBits
NewOutcomeModuloWord ==
    (unit.fn = "Renderer" /\ unit.state # "start") =>
        /\ unit.state = "err" <=> (~unit.input.parses \/ ~unit.input.deserializes)
        /\ (unit.input.parses /\ unit.input.deserializes
              /\ unit.input.render_scene # "ok") => unit.state = "aborted"
        /\ (unit.state = "handle" /\ unit.calls = 0) =>
              /\ unit.handle.width = unit.input.canvas_width
              /\ unit.handle.img_buffer =
                     Zeros((unit.handle.width * unit.handle.height * 4) % Word)
              /\ unit.consumed = 0
              /\ unit.handle.render_iterator = unit.input.elements

=============================================================================
